---- MODULE Spec2Model ----
(***************************************************************************)
(* A model of binrw's write entry points (binrw/src/binwrite/mod.rs) and   *)
(* of the derive_binread attribute macro (binrw_derive/src/binread.rs).    *)
(*                                                                         *)
(* SpecWrite : a writer stream on which the BinWrite / BinWriterExt entry  *)
(*             points are called one after the other.                      *)
(* SpecDerive: a type definition is written down, then expanded by         *)
(*             derive_from_input and derive_from_attribute.                *)
(***************************************************************************)
EXTENDS Integers, Sequences, FiniteSets

VARIABLES
    \* ---- writer side ----
    nativeEndian,   \* what Endian::Native means on the build target
    endianDefault,  \* <Endian as Default>::default() (declared outside src/)
    stream,         \* the bytes held by the writer
    before,         \* the bytes the writer held when the last call started
    entry,          \* the entry point called last
    value,          \* the value handed to it
    given,          \* the endian / args / stream budget handed to it
    calls,          \* the write_options calls the entry point itself made
    result,         \* the BinResult the entry point returned
    wo,             \* what write_options returned, and the stream at that time
    optsAfter,      \* the entry point's own WriteOptions after write_options
    seen,           \* the endian every leaf codec of the last call was given
    ncalls,         \* number of calls made on the stream
    \* ---- derive side ----
    derive_input,   \* the definition as written
    phase,          \* "edit" while it is written, "fixed" once expanded
    input_out,      \* what derive_from_input returned
    attr_out        \* what derive_from_attribute returned

wvars == <<nativeEndian, endianDefault, stream, before, entry, value, given,
           calls, result, wo, optsAfter, seen, ncalls>>
dvars == <<derive_input, phase, input_out, attr_out>>
vars == <<wvars, dvars>>

\* ------------------------------------------------------------------ bounds
MaxCalls == 2      \* calls made on one stream
MaxBudget == 1     \* largest number of bytes a failing stream still accepts
MaxVariants == 2   \* variants of an enum definition

\* =================================================================== WRITER
Endian == {"Big", "Little", "Native"}
ArgsSet == {"default", "custom"}
Args_default == "default"

Ok == [ok |-> TRUE, err |-> "none"]
Err(e) == [ok |-> FALSE, err |-> e]

WriteOptions_new(endian) == [endian |-> endian]
WriteOptions_endian(self) == self.endian
\* faulty variant: the endian handed in is dropped
WriteOptions_with_endian_keep(self, endian) == self
WriteOptions_with_endian(self, endian) == [endian |-> endian]
WriteOptions_default == [endian |-> endianDefault]
WriteOptionsSet == [endian : Endian]

\* ---- values: leaves, and structs of leaves with an optional endian directive
U8(n) == [ty |-> "u8", v |-> n, fields |-> <<>>]
U16(n) == [ty |-> "u16", v |-> n, fields |-> <<>>]
Field(val, e) == [val |-> val, endian |-> e]
Struct(fs) == [ty |-> "struct", v |-> 0, fields |-> fs]
Faulty == [ty |-> "faulty", v |-> 0, fields |-> <<>>]
NoValue == [ty |-> "none", v |-> 0, fields |-> <<>>]

MyStruct == Struct(<<Field(U8(1), "Inherit"), Field(U16(65535), "Inherit"),
                     Field(U8(2), "Inherit")>>)
Mixed == Struct(<<Field(U16(4660), "Little"), Field(U16(4660), "Inherit"),
                  Field(U16(4660), "Big")>>)
Values == {U16(4660), MyStruct, Mixed, Faulty}

\* ---- the stream: an io::Write that fails once its budget is used up
\* (a negative budget never fails)
Budgets == {-1} \cup (0..MaxBudget)
Writer(buf, budget) == [buf |-> buf, budget |-> budget]

write_all(w, bytes) ==
    IF w.budget < 0
    THEN [w |-> Writer(w.buf \o bytes, w.budget), res |-> Ok, seen |-> <<>>]
    ELSE IF Len(bytes) <= w.budget
    THEN [w |-> Writer(w.buf \o bytes, w.budget - Len(bytes)), res |-> Ok,
          seen |-> <<>>]
    ELSE [w |-> Writer(w.buf \o SubSeq(bytes, 1, w.budget), 0),
          res |-> Err("Io"), seen |-> <<>>]

Resolve(e) == IF e = "Native" THEN nativeEndian ELSE e

to_bytes(val, endian) ==
    IF val.ty = "u8" THEN <<val.v>>
    ELSE IF Resolve(endian) = "Big" THEN <<val.v \div 256, val.v % 256>>
    ELSE <<val.v % 256, val.v \div 256>>

leaf_write_options(val, w, options, args) ==
    LET r == write_all(w, to_bytes(val, WriteOptions_endian(options)))
    IN [r EXCEPT !.seen = <<WriteOptions_endian(options)>>]

RECURSIVE write_fields(_, _, _, _)
write_fields(fields, i, w, options) ==
    IF i > Len(fields) THEN [w |-> w, res |-> Ok, seen |-> <<>>]
    ELSE LET f == fields[i]
             fopts == IF f.endian = "Inherit" THEN options
                      ELSE WriteOptions_with_endian(options, f.endian)
             r == leaf_write_options(f.val, w, fopts, Args_default)
         IN IF ~r.res.ok THEN r
            ELSE LET rest == write_fields(fields, i + 1, r.w, options)
                 IN [rest EXCEPT !.seen = r.seen \o rest.seen]

write_options(val, w, options, args) ==
    CASE val.ty = "struct" -> write_fields(val.fields, 1, w, options)
      [] val.ty = "faulty" -> [w |-> w, res |-> Err("Custom"), seen |-> <<>>]
      [] OTHER -> leaf_write_options(val, w, options, args)

\* ---- what an entry point hands back to the model
Outcome(r, res, options, cs) ==
    [buf |-> r.w.buf, res |-> res, calls |-> cs, woRes |-> r.res,
     woBuf |-> r.w.buf, options |-> options, seen |-> r.seen]
Call(val, options, args) == [value |-> val, options |-> options, args |-> args]

\* ---- BinWrite
\* faulty variant: big-endian options instead of the default ones
write_to_big(self, writer) ==
    LET options == WriteOptions_new("Big")
        r == write_options(self, writer, options, Args_default)
    IN Outcome(r, r.res, options, <<Call(self, options, Args_default)>>)
write_to(self, writer) ==
    LET options == WriteOptions_default
        r == write_options(self, writer, options, Args_default)
    IN Outcome(r, r.res, options, <<Call(self, options, Args_default)>>)

write_with_args(self, writer, args) ==
    LET options == WriteOptions_default
        r == write_options(self, writer, options, args)
    IN Outcome(r, r.res, options, <<Call(self, options, args)>>)

\* ---- BinWriterExt
\* faulty variant: the result of write_options is discarded
write_type_args_swallow(self, val, endian, args) ==
    LET options == WriteOptions_new(endian)
        r == write_options(val, self, options, args)
    IN Outcome(r, Ok, options, <<Call(val, options, args)>>)
\* faulty variant: the endian handed in is not passed on
write_type_args_big(self, val, endian, args) ==
    LET options == WriteOptions_new("Big")
        r == write_options(val, self, options, args)
    IN Outcome(r, IF r.res.ok THEN Ok ELSE r.res, options,
               <<Call(val, options, args)>>)
write_type_args(self, val, endian, args) ==
    LET options == WriteOptions_new(endian)
        r == write_options(val, self, options, args)
    IN Outcome(r, IF r.res.ok THEN Ok ELSE r.res, options,
               <<Call(val, options, args)>>)

write_type(self, val, endian) == write_type_args(self, val, endian, Args_default)
\* faulty variant: the wrong byte order is named
write_be_little(self, val) == write_type(self, val, "Little")
write_be(self, val) == write_type(self, val, "Big")
write_le(self, val) == write_type(self, val, "Little")
write_ne(self, val) == write_type(self, val, "Native")
write_be_args(self, val, args) == write_type_args(self, val, "Big", args)
write_le_args(self, val, args) == write_type_args(self, val, "Little", args)
write_ne_args(self, val, args) == write_type_args(self, val, "Native", args)

\* ---- one action per entry point
Returned(name, val, e, a, b, out) ==
    /\ ncalls < MaxCalls
    /\ stream' = out.buf
    /\ before' = stream
    /\ entry' = name
    /\ value' = val
    /\ given' = [endian |-> e, args |-> a, budget |-> b]
    /\ calls' = out.calls
    /\ result' = out.res
    /\ wo' = [res |-> out.woRes, buf |-> out.woBuf]
    /\ optsAfter' = out.options
    /\ seen' = out.seen
    /\ ncalls' = ncalls + 1
    /\ UNCHANGED <<nativeEndian, endianDefault, dvars>>

Call_write_to ==
    \E val \in Values, b \in Budgets :
        Returned("write_to", val, "none", "none", b,
                 write_to(val, Writer(stream, b)))
Call_write_with_args ==
    \E val \in Values, b \in Budgets, a \in ArgsSet :
        Returned("write_with_args", val, "none", a, b,
                 write_with_args(val, Writer(stream, b), a))
Call_write_type ==
    \E val \in Values, b \in Budgets, e \in Endian :
        Returned("write_type", val, e, "none", b,
                 write_type(Writer(stream, b), val, e))
Call_write_be ==
    \E val \in Values, b \in Budgets :
        Returned("write_be", val, "none", "none", b,
                 write_be(Writer(stream, b), val))
Call_write_le ==
    \E val \in Values, b \in Budgets :
        Returned("write_le", val, "none", "none", b,
                 write_le(Writer(stream, b), val))
Call_write_ne ==
    \E val \in Values, b \in Budgets :
        Returned("write_ne", val, "none", "none", b,
                 write_ne(Writer(stream, b), val))
Call_write_type_args ==
    \E val \in Values, b \in Budgets, e \in Endian, a \in ArgsSet :
        Returned("write_type_args", val, e, a, b,
                 write_type_args(Writer(stream, b), val, e, a))
Call_write_be_args ==
    \E val \in Values, b \in Budgets, a \in ArgsSet :
        Returned("write_be_args", val, "none", a, b,
                 write_be_args(Writer(stream, b), val, a))
Call_write_le_args ==
    \E val \in Values, b \in Budgets, a \in ArgsSet :
        Returned("write_le_args", val, "none", a, b,
                 write_le_args(Writer(stream, b), val, a))
Call_write_ne_args ==
    \E val \in Values, b \in Budgets, a \in ArgsSet :
        Returned("write_ne_args", val, "none", a, b,
                 write_ne_args(Writer(stream, b), val, a))

\* ---- the read side of the same contract (read entry point and leaf decoders)
Shape(val) ==
    [ty |-> val.ty, v |-> 0,
     fields |-> [i \in 1..Len(val.fields) |->
                    Field([val.fields[i].val EXCEPT !.v = 0], val.fields[i].endian)]]

leaf_read_options(shape, bytes, options) ==
    LET n == IF shape.ty = "u8" THEN 1 ELSE 2
    IN IF Len(bytes) < n THEN [ok |-> FALSE, val |-> NoValue, rest |-> bytes]
       ELSE [ok |-> TRUE,
             val |-> [shape EXCEPT !.v =
                        IF n = 1 THEN bytes[1]
                        ELSE IF Resolve(options.endian) = "Big"
                             THEN bytes[1] * 256 + bytes[2]
                             ELSE bytes[2] * 256 + bytes[1]],
             rest |-> SubSeq(bytes, n + 1, Len(bytes))]

RECURSIVE read_fields(_, _, _, _, _)
read_fields(fields, i, bytes, options, acc) ==
    IF i > Len(fields)
    THEN [ok |-> TRUE, val |-> Struct(acc), rest |-> bytes]
    ELSE LET f == fields[i]
             fopts == IF f.endian = "Inherit" THEN options
                      ELSE [endian |-> f.endian]
             r == leaf_read_options(f.val, bytes, fopts)
         IN IF ~r.ok THEN r
            ELSE read_fields(fields, i + 1, r.rest, options,
                             Append(acc, Field(r.val, f.endian)))

read_options(shape, bytes, options) ==
    CASE shape.ty = "struct" -> read_fields(shape.fields, 1, bytes, options, <<>>)
      [] shape.ty = "faulty" -> [ok |-> FALSE, val |-> NoValue, rest |-> bytes]
      [] OTHER -> leaf_read_options(shape, bytes, options)

read_type(bytes, shape, endian) == read_options(shape, bytes, [endian |-> endian])

\* =========================================================== WRITER CLAIMS
ExtEntries == {"write_type", "write_be", "write_le", "write_ne",
               "write_type_args", "write_be_args", "write_le_args",
               "write_ne_args"}

\* the endianness an entry point is named after (or is handed)
NamedEndian ==
    CASE entry \in {"write_be", "write_be_args"} -> "Big"
      [] entry \in {"write_le", "write_le_args"} -> "Little"
      [] entry \in {"write_ne", "write_ne_args"} -> "Native"
      [] entry \in {"write_type", "write_type_args"} -> given.endian
      [] OTHER -> endianDefault
NamedArgs == IF given.args = "none" THEN "default" ELSE given.args

\* the bytes of a value written alone, to a stream that never fails
Encoded(val, endian) ==
    write_options(val, Writer(<<>>, -1), [endian |-> endian], "default").w.buf

\* C1: round-trip law: a value written to an empty stream through a write
\* entry point with some endianness (big, little, native) and read back with
\* the same endianness is the value written, and no byte is left over.
C1_RoundTrip ==
    (entry \in ExtEntries /\ before = <<>> /\ result.ok) =>
        LET r == read_type(stream, Shape(value), NamedEndian)
        IN r.ok /\ r.val = value /\ r.rest = <<>>
C1_Witness ==
    /\ entry = "write_type_args" /\ given.endian = "Little" /\ before = <<>>
    /\ result.ok /\ value = Mixed /\ stream = <<52, 18, 52, 18, 18, 52>>

\* C2: consecutive write calls append their bytes in call order, each call
\* encoding with its own endianness only; in particular write_be of
\* (1u8, 0xffffu16, 2u8) followed by write_type of 0x1234u16 with Little
\* leaves exactly [0x01, 0xff, 0xff, 0x02, 0x34, 0x12].
C2_AppendInCallOrder ==
    [][ /\ SubSeq(stream', 1, Len(stream)) = stream
        /\ (result'.ok /\ entry' \in ExtEntries) =>
               stream' = stream \o Encoded(value', NamedEndian')
        /\ ( /\ entry = "write_be" /\ value = MyStruct /\ before = <<>>
             /\ result.ok
             /\ entry' = "write_type" /\ value' = U16(4660)
             /\ given'.endian = "Little" /\ result'.ok )
           => stream' = <<1, 255, 255, 2, 52, 18>>
      ]_vars
C2_Witness ==
    /\ entry = "write_type" /\ value = U16(4660) /\ given.endian = "Little"
    /\ result.ok /\ before = <<1, 255, 255, 2>>
    /\ stream = <<1, 255, 255, 2, 52, 18>>

\* C5: an entry point layered on write_type_args returns Ok exactly when the
\* value's write_options returned Ok; a failure of write_options is returned
\* unchanged, and the stream is as write_options left it.
C5_ErrorPropagation ==
    entry \in ExtEntries =>
        /\ result.ok <=> wo.res.ok
        /\ ~wo.res.ok => (result = wo.res /\ stream = wo.buf)
C5_Witness ==
    /\ entry = "write_be_args" /\ result = Err("Io") /\ wo.res = Err("Io")
    /\ value = MyStruct /\ stream = before \o <<1>>

\* C6: every convenience entry point makes exactly one write_options call, on
\* the value, with options carrying the endianness the entry point names (the
\* default options for write_to and write_with_args) and with the caller's
\* args (Args::default() where the entry point takes none).
C6_OneCallWithNamedEndian ==
    entry # "none" =>
        calls = <<Call(value, [endian |-> NamedEndian], NamedArgs)>>
C6_Witness ==
    /\ entry = "write_ne_args" /\ given.args = "custom"
    /\ calls = <<Call(value, [endian |-> "Native"], "custom")>>

\* C7: WriteOptions::new(e).endian() = e and o.with_endian(e).endian() = e;
\* the caller's options are the same after write_options as before it, and a
\* field's overridden copy is seen by that field only: every other leaf is
\* handed the caller's endianness.
C7_OptionsImmutable ==
    /\ \A e \in Endian : WriteOptions_endian(WriteOptions_new(e)) = e
    /\ \A o \in WriteOptionsSet, e \in Endian :
           WriteOptions_endian(WriteOptions_with_endian(o, e)) = e
    /\ entry # "none" =>
        /\ WriteOptions_endian(optsAfter) = NamedEndian
        /\ value.ty = "struct" =>
              \A i \in 1..Len(seen) :
                  seen[i] = IF value.fields[i].endian = "Inherit"
                            THEN NamedEndian
                            ELSE value.fields[i].endian
C7_Witness ==
    /\ entry = "write_be" /\ value = Mixed /\ result.ok
    /\ seen = <<"Little", "Big", "Big">>
    /\ WriteOptions_endian(optsAfter) = "Big"

\* =================================================================== DERIVE
\* A definition (syn::DeriveInput): shape, container attributes and data.  An
\* enum's data is its variants; a struct's or union's data is its one field
\* list, held as a single variant without attributes.  A field list
\* (syn::Fields) is named, unnamed or unit; a field keeps the index it was
\* declared at as its name.
Attr(path, tokens) == [path |-> path, tokens |-> tokens]
FieldDef(name, attrs) == [name |-> name, attrs |-> attrs]
Fields(kind, list) == [kind |-> kind, list |-> list]
Variant(attrs, fields) == [attrs |-> attrs, fields |-> fields]
DeriveInput(shape, attrs, variants) ==
    [shape |-> shape, attrs |-> attrs, variants |-> variants]

Doc == Attr("doc", "")
Allow == Attr("allow", "")

NamedFieldLists ==
    { Fields("named", <<FieldDef(0, <<Doc>>)>>),
      Fields("named", <<FieldDef(0, <<Doc, Attr("br", "temp")>>),
                        FieldDef(1, <<Doc, Attr("br", "count"), Allow>>)>>),
      Fields("named", <<FieldDef(0, <<Attr("br", "bad")>>),
                        FieldDef(1, <<Allow, Attr("br", "temp")>>)>>) }
FieldLists ==
    NamedFieldLists \cup
    { Fields("unit", <<>>),
      Fields("unnamed", <<FieldDef(0, <<Attr("br", "big"), Doc>>),
                          FieldDef(1, <<Attr("binread", "temp")>>),
                          FieldDef(2, <<>>)>>) }
VariantAttrLists == { <<>>, <<Doc, Attr("br", "magic"), Allow>> }
ContainerAttrLists ==
    { <<>>, <<Allow, Attr("br", "big"), Doc>>, <<Attr("binread", "bad")>> }

Definitions ==
    { DeriveInput("struct", a, <<Variant(<<>>, f)>>) :
          a \in ContainerAttrLists, f \in FieldLists }
    \cup { DeriveInput("union", a, <<Variant(<<>>, f)>>) :
          a \in ContainerAttrLists, f \in NamedFieldLists }
    \cup UNION { { DeriveInput("enum", a, vs) :
                     a \in ContainerAttrLists,
                     vs \in [1..n -> { Variant(va, f) :
                                 va \in VariantAttrLists, f \in FieldLists }] } :
                 n \in 0..MaxVariants }

\* ---- parser::read (the schema extractor) and codegen
is_binread_attr(attr) == attr.path \in {"br", "binread"}

Directives(attrs) ==
    { attrs[k].tokens : k \in { x \in 1..Len(attrs) : is_binread_attr(attrs[x]) } }

FieldDirectives(fields) ==
    UNION { Directives(fields.list[j].attrs) : j \in 1..Len(fields.list) }

AllDirectives(di) ==
    Directives(di.attrs)
    \cup UNION { Directives(di.variants[i].attrs) \cup
                 FieldDirectives(di.variants[i].fields) :
                   i \in 1..Len(di.variants) }

ParseOk(input) == [ok |-> TRUE, err |-> "none", input |-> input]
ParseErr(e) == [ok |-> FALSE, err |-> e, input |-> <<>>]

\* the plan of one field list: every declared field, in declaration order,
\* with its temporary flag
PlanFields(fields) ==
    [j \in 1..Len(fields.list) |->
        [name |-> fields.list[j].name,
         temp |-> "temp" \in Directives(fields.list[j].attrs),
         directives |-> Directives(fields.list[j].attrs)]]

from_input(di) ==
    IF di.shape = "union" THEN ParseErr("UnsupportedShape")
    ELSE IF "bad" \in AllDirectives(di) THEN ParseErr("Syntax")
    ELSE ParseOk([shape |-> di.shape,
                  directives |-> Directives(di.attrs),
                  variants |-> [i \in 1..Len(di.variants) |->
                      [directives |-> Directives(di.variants[i].attrs),
                       fields |-> PlanFields(di.variants[i].fields)]]])

is_temp_field(input, variant_index, index) ==
    /\ variant_index + 1 \in 1..Len(input.variants)
    /\ index + 1 \in 1..Len(input.variants[variant_index + 1].fields)
    /\ input.variants[variant_index + 1].fields[index + 1].temp

generate_binread_impl(di, binread_input) ==
    IF binread_input.ok
    THEN [kind |-> "impl", err |-> "none", plan |-> binread_input.input]
    ELSE [kind |-> "compile_error", err |-> binread_input.err, plan |-> <<>>]

NoImpl == [kind |-> "none", err |-> "none", plan |-> <<>>]

\* ---- binread.rs
\* Result::ok
ok(r) == [some |-> r.ok, input |-> r.input]

\* faulty variant: every attribute is removed
clean_struct_attrs_clear(attrs) == <<>>
clean_struct_attrs(attrs) == SelectSeq(attrs, LAMBDA attr : ~is_binread_attr(attr))

derive_from_input(di) ==
    LET binread_input == from_input(di)
        generated_impl == generate_binread_impl(di, binread_input)
    IN [binread_input |-> binread_input, generated_impl |-> generated_impl]

\* the fields kept by the filter_map of clean_field_attrs, for a variant index
Kept(binread_input, variant_index, list) ==
    LET idx == SelectSeq([j \in 1..Len(list) |-> j],
                         LAMBDA j : ~is_temp_field(binread_input.input,
                                                   variant_index, j - 1))
    IN [k \in 1..Len(idx) |->
           [list[idx[k]] EXCEPT !.attrs = clean_struct_attrs(@)]]

\* faulty variant: the variant index is ignored
clean_field_attrs_first_variant(binread_input, variant_index, fields) ==
    IF ~binread_input.some \/ fields.kind = "unit" THEN fields
    ELSE [fields EXCEPT !.list = Kept(binread_input, 0, fields.list)]
clean_field_attrs(binread_input, variant_index, fields) ==
    IF binread_input.some
    THEN IF fields.kind = "unit" THEN fields
         ELSE [fields EXCEPT !.list = Kept(binread_input, variant_index, fields.list)]
    ELSE fields

\* the match on derive_input.data (lines 19-34)
CleanData(binread_input, di) ==
    CASE di.shape = "struct" ->
           <<[di.variants[1] EXCEPT
                !.fields = clean_field_attrs(binread_input, 0, @)]>>
      [] di.shape = "enum" ->
           [i \in 1..Len(di.variants) |->
               Variant(clean_struct_attrs(di.variants[i].attrs),
                       clean_field_attrs(binread_input, i - 1,
                                         di.variants[i].fields))]
      [] OTHER ->
           <<[di.variants[1] EXCEPT
                !.fields.list =
                    [j \in 1..Len(@) |->
                        [@[j] EXCEPT !.attrs = clean_struct_attrs(@)]]]>>

Expansion(di, binread_input, generated_impl) ==
    [derive_input |-> di, binread_input |-> binread_input,
     generated_impl |-> generated_impl]

\* faulty variant: the implementation is left out when the definition did not parse
derive_from_attribute_drop_impl(di) ==
    LET r == derive_from_input(di)
        binread_input == ok(r.binread_input)
    IN Expansion(DeriveInput(di.shape, clean_struct_attrs(di.attrs),
                             CleanData(binread_input, di)),
                 binread_input,
                 IF binread_input.some THEN r.generated_impl ELSE NoImpl)
\* faulty variant: the implementation is generated from the cleaned definition
derive_from_attribute_late(di) ==
    LET binread_input == ok(from_input(di))
        cleaned == DeriveInput(di.shape, clean_struct_attrs(di.attrs),
                               CleanData(binread_input, di))
    IN Expansion(cleaned, binread_input, derive_from_input(cleaned).generated_impl)
derive_from_attribute(di) ==
    LET r == derive_from_input(di)
        binread_input == ok(r.binread_input)
    IN Expansion(DeriveInput(di.shape, clean_struct_attrs(di.attrs),
                             CleanData(binread_input, di)),
                 binread_input, r.generated_impl)

\* ---- actions: a definition is written, then expanded by either macro
Define ==
    /\ phase = "none"
    /\ \E di \in Definitions : derive_input' = di
    /\ phase' = "defined"
    /\ UNCHANGED <<input_out, attr_out, wvars>>

DeriveFromInput ==
    /\ phase = "defined"
    /\ ~input_out.done
    /\ LET r == derive_from_input(derive_input)
       IN input_out' = [done |-> TRUE, binread_input |-> r.binread_input,
                        generated_impl |-> r.generated_impl]
    /\ UNCHANGED <<derive_input, phase, attr_out, wvars>>

DeriveFromAttribute ==
    /\ phase = "defined"
    /\ ~attr_out.done
    /\ LET r == derive_from_attribute(derive_input)
       IN attr_out' = [done |-> TRUE, derive_input |-> r.derive_input,
                       binread_input |-> r.binread_input,
                       generated_impl |-> r.generated_impl]
    /\ UNCHANGED <<derive_input, phase, input_out, wvars>>

NoDefinition == DeriveInput("none", <<>>, <<>>)
NoOutput == [done |-> FALSE]

\* =========================================================== DERIVE CLAIMS
OrigList(i) == derive_input.variants[i].fields.list
OutList(i) == attr_out.derive_input.variants[i].fields.list
NonBinread(attrs) == SelectSeq(attrs, LAMBDA x : x.path \notin {"br", "binread"})
ParsedInput == from_input(derive_input).input

\* C3: when a struct or enum parses, the re-emitted definition holds, for the
\* struct (variant index 0) and for every enum variant i, exactly the fields
\* whose declaration index j has ~is_temp_field(i, j), in declaration order.
C3_TempFieldElision ==
    (attr_out.done /\ attr_out.binread_input.some) =>
        /\ Len(attr_out.derive_input.variants) = Len(derive_input.variants)
        /\ \A i \in 1..Len(derive_input.variants) :
            /\ \A k \in 1..Len(OutList(i)) :
                   OutList(i)[k].name \in 0..(Len(OrigList(i)) - 1)
            /\ \A k, l \in 1..Len(OutList(i)) :
                   k < l => OutList(i)[k].name < OutList(i)[l].name
            /\ \A j \in 0..(Len(OrigList(i)) - 1) :
                   (\E k \in 1..Len(OutList(i)) : OutList(i)[k].name = j)
                   <=> ~is_temp_field(ParsedInput, i - 1, j)
C3_Witness ==
    /\ attr_out.done /\ attr_out.binread_input.some
    /\ derive_input.shape = "enum" /\ Len(derive_input.variants) = 2
    /\ Len(OrigList(1)) = 1 /\ Len(OutList(1)) = 1
    /\ Len(OrigList(2)) = 3 /\ Len(OutList(2)) = 2
    /\ OutList(2)[1].name = 0 /\ OutList(2)[2].name = 2

\* C4: a union is rejected with UnsupportedShape by the derive form and by
\* the attribute form, and neither form emits a working implementation.
C4_UnionRejected ==
    derive_input.shape = "union" =>
        /\ input_out.done =>
            /\ ~input_out.binread_input.ok
            /\ input_out.binread_input.err = "UnsupportedShape"
            /\ input_out.generated_impl.kind = "compile_error"
            /\ input_out.generated_impl.err = "UnsupportedShape"
        /\ attr_out.done =>
            /\ ~attr_out.binread_input.some
            /\ attr_out.generated_impl.kind = "compile_error"
            /\ attr_out.generated_impl.err = "UnsupportedShape"
C4_Witness ==
    /\ derive_input.shape = "union" /\ input_out.done /\ attr_out.done
    /\ attr_out.generated_impl.err = "UnsupportedShape"

\* C8: the implementation emitted by derive_from_attribute is the one
\* generated from the definition as written: its plan holds every declared
\* field, temporary ones included, at its declared position, whatever was
\* stripped from the re-emitted definition.
C8_PlanFromDefinitionAsWritten ==
    attr_out.done =>
        /\ attr_out.generated_impl =
               generate_binread_impl(derive_input, from_input(derive_input))
        /\ attr_out.generated_impl.kind = "impl" =>
            LET plan == attr_out.generated_impl.plan
            IN /\ Len(plan.variants) = Len(derive_input.variants)
               /\ \A i \in 1..Len(derive_input.variants) :
                    /\ Len(plan.variants[i].fields) = Len(OrigList(i))
                    /\ \A j \in 1..Len(OrigList(i)) :
                        /\ plan.variants[i].fields[j].name = j - 1
                        /\ plan.variants[i].fields[j].temp
                             <=> \E k \in 1..Len(OrigList(i)[j].attrs) :
                                    /\ OrigList(i)[j].attrs[k].path
                                           \in {"br", "binread"}
                                    /\ OrigList(i)[j].attrs[k].tokens = "temp"
C8_Witness ==
    /\ attr_out.done /\ attr_out.generated_impl.kind = "impl"
    /\ derive_input.shape = "struct"
    /\ Len(OrigList(1)) = 2 /\ Len(OutList(1)) = 1
    /\ attr_out.generated_impl.plan.variants[1].fields[1].temp
    /\ Len(attr_out.generated_impl.plan.variants[1].fields) = 2

\* C9: on one definition the attribute form and the derive form reach the
\* same parse outcome and emit the same implementation.
C9_OneSchemaExtractor ==
    (input_out.done /\ attr_out.done) =>
        /\ attr_out.generated_impl = input_out.generated_impl
        /\ attr_out.binread_input.some = input_out.binread_input.ok
        /\ attr_out.binread_input.input = input_out.binread_input.input
C9_Witness ==
    /\ input_out.done /\ attr_out.done
    /\ derive_input.shape = "enum" /\ Len(derive_input.variants) = 2
    /\ attr_out.generated_impl.kind = "impl"
    /\ attr_out.derive_input # derive_input

\* the parts of C10 that do not depend on which fields are emitted
CleanedOutsideFields ==
    /\ attr_out.derive_input.shape = derive_input.shape
    /\ attr_out.derive_input.attrs = NonBinread(derive_input.attrs)
    /\ Len(attr_out.derive_input.variants) = Len(derive_input.variants)
    /\ \A i \in 1..Len(derive_input.variants) :
        /\ attr_out.derive_input.variants[i].attrs =
               NonBinread(derive_input.variants[i].attrs)
        /\ attr_out.derive_input.variants[i].fields.kind =
               derive_input.variants[i].fields.kind
    /\ (derive_input.shape # "union" /\ ~attr_out.binread_input.some) =>
           \A i \in 1..Len(derive_input.variants) : OutList(i) = OrigList(i)
    /\ (derive_input.shape = "union" \/ attr_out.binread_input.some) =>
           \A i \in 1..Len(derive_input.variants) :
               \A k \in 1..Len(OutList(i)) :
                   \E j \in 1..Len(OrigList(i)) :
                       /\ OrigList(i)[j].name = OutList(i)[k].name
                       /\ OutList(i)[k].attrs = NonBinread(OrigList(i)[j].attrs)

\* C10 as stated: container and variant binread attributes are always
\* removed, field binread attributes exactly when parsing succeeded or the
\* shape is a union, fields are untouched when a struct or enum fails to
\* parse, and no attribute that is not a binread attribute is ever removed.
C10_AsStated ==
    attr_out.done =>
        /\ CleanedOutsideFields
        /\ \A i \in 1..Len(derive_input.variants) :
               \A j \in 1..Len(OrigList(i)) :
                   NonBinread(OrigList(i)[j].attrs) # <<>> =>
                       \E k \in 1..Len(OutList(i)) :
                           /\ OutList(i)[k].name = OrigList(i)[j].name
                           /\ NonBinread(OutList(i)[k].attrs) =
                                  NonBinread(OrigList(i)[j].attrs)

\* C10 (amended): as stated, except that the attributes that are not binread
\* attributes are kept, in order, on the container, on every variant and on
\* every emitted field; a temporary field removed after a successful parse
\* goes with all its attributes.
C10_AttributeCleaning ==
    attr_out.done =>
        /\ CleanedOutsideFields
        /\ \A i \in 1..Len(derive_input.variants) :
               \A j \in 1..Len(OrigList(i)) :
                   \/ /\ attr_out.binread_input.some
                      /\ is_temp_field(ParsedInput, i - 1, j - 1)
                      /\ \A k \in 1..Len(OutList(i)) :
                             OutList(i)[k].name # OrigList(i)[j].name
                   \/ \E k \in 1..Len(OutList(i)) :
                       /\ OutList(i)[k].name = OrigList(i)[j].name
                       /\ NonBinread(OutList(i)[k].attrs) =
                              NonBinread(OrigList(i)[j].attrs)
C10_Witness ==
    /\ attr_out.done /\ ~attr_out.binread_input.some
    /\ derive_input.shape = "enum" /\ Len(derive_input.variants) = 2
    /\ Len(derive_input.variants[1].attrs) = 3
    /\ Len(attr_out.derive_input.variants[1].attrs) = 2
    /\ Len(OrigList(2)) = 2 /\ OutList(2) = OrigList(2)
    /\ OrigList(2)[2].attrs[2].path = "br"

\* a fresh stream, nothing written yet
Fresh ==
    /\ stream = <<>>
    /\ before = <<>>
    /\ entry = "none"
    /\ value = NoValue
    /\ given = [endian |-> "none", args |-> "none", budget |-> -1]
    /\ calls = <<>>
    /\ result = Ok
    /\ wo = [res |-> Ok, buf |-> <<>>]
    /\ optsAfter = WriteOptions_new("Big")
    /\ seen = <<>>
    /\ ncalls = 0

\* no definition handed to the macros yet
Blank ==
    /\ derive_input = NoDefinition
    /\ phase = "none"
    /\ input_out = NoOutput
    /\ attr_out = NoOutput

InitWrite ==
    /\ nativeEndian \in {"Big", "Little"}
    /\ endianDefault \in Endian
    /\ Fresh
    /\ Blank

InitDerive ==
    /\ nativeEndian = "Little"
    /\ endianDefault = "Native"
    /\ Fresh
    /\ Blank

NextWrite ==
    \/ Call_write_to
    \/ Call_write_with_args
    \/ Call_write_type
    \/ Call_write_be
    \/ Call_write_le
    \/ Call_write_ne
    \/ Call_write_type_args
    \/ Call_write_be_args
    \/ Call_write_le_args
    \/ Call_write_ne_args

SpecWrite == InitWrite /\ [][NextWrite]_vars

NextDerive ==
    \/ Define
    \/ DeriveFromInput
    \/ DeriveFromAttribute

SpecDerive == InitDerive /\ [][NextDerive]_vars
====
